---- MODULE Spec2Model ----
(***************************************************************************)
(* Lead lifecycle and follow-up scheduling of renovation-ai.               *)
(*                                                                         *)
(* Two lead stores exist in the source and are modelled separately:        *)
(*   - the Postgres tables `companies` and `leads` (dbCompanies, dbLeads), *)
(*     written by POST /api/lead and POST /api/demo/create and scanned by  *)
(*     the follow-up scheduler (email-automation, src/unnamed/part_001);   *)
(*   - the process-wide in-memory `companies` Map and `leads` array        *)
(*     (server.js:15-16), used by the list / update / stats endpoints.     *)
(***************************************************************************)
EXTENDS Integers, Sequences, FiniteSets, TLC

\* ------------------------------------------------------------------ bounds
\* Ages are counted in whole days and saturate at MaxAge (every age
\* threshold of the scheduler lies below it).
MaxAge == 15
\* A stage email is delivered to one lead at most MaxSends times in a run
\* of the model (the real count is unbounded when the flag write fails).
MaxSends == 2
\* Store operations (a query, an INSERT, an UPDATE) that reject in one behaviour.
MaxDbFaults == 1

\* ------------------------------------------------------- program constants
\* INTERVAL '3 days' / '7 days' / '14 days' of the three scheduler queries.
FirstFollowUpDays == 3
SecondFollowUpDays == 7
FinalFollowUpDays == 14

\* ------------------------------------------------------------ input sets
LeadIds == {"lead_a", "lead_b"}
Runs == {"run1", "run2"}
Stages == {1, 2, 3}
Null == "<null>"
DemoCompanyId == "demo_company"
CompanyIdInputs == {Null, DemoCompanyId, "company_x"}
PromptInputs == {Null, "Modern bathroom"}
\* Statuses a dashboard user writes.
DashStatuses == {"new", "contacted"}
\* A lead is captured on the day another one was, CaptureGap days after it, or
\* once the other one is at least MaxAge days old.
CaptureGap == 5

\* Request bodies of PUT /api/lead/:leadId; NoValue is an absent number.
NoValue == -1
StatusInputs == {Null, "contacted", "won"}
ProjectValueInputs == {NoValue, 0, 15000}
PutLeadIds == {"lead_a", "demo_lead_3", "demo_lead_5"}
StatusFilters == {Null, "new", "won"}
\* ?month= of the stats request: absent, this month, last month, a month
\* without leads. Today is the DayOfMonth-th day of its month.
MonthInputs == {Null, "current", "previous", "2020-01"}
DayOfMonth == 3
PrevMonthDays == 30

NoLead == [absent |-> TRUE]
NoFlags == [n \in Stages |-> FALSE]

VARIABLES
    dbCompanies,   \* ids of the rows of table companies
    dbLeads,       \* table leads: lead id -> row, or NoLead
    companies,     \* the in-memory Map `companies` (server.js:15): its values
    leads,         \* the in-memory array `leads` (server.js:16)
    run,           \* scheduler invocations: run id -> position
    sentCount,     \* history: stage emails accepted by the mail API, per lead
    dbFaults,      \* history: store operations that rejected so far
    notified,      \* history: capture notifications handed to the mail API
    resp,          \* the last HTTP response
    widget         \* the embedded widget: its variables and the page elements it drives

vars == <<dbCompanies, dbLeads, companies, leads, run, sentCount, dbFaults, notified, resp, widget>>

\* The last response: the endpoint, the HTTP status, the id the request was
\* about, the leads of the body, the reference code of a capture, the stats.
Resp(op, code, leadId, body) ==
    [op |-> op, code |-> code, leadId |-> leadId, leads |-> body, referenceCode |-> Null,
     stats |-> Null, total |-> 0]
NoResp == Resp("none", 0, Null, <<>>)
mem == <<companies, leads>>
IdleRun ==
    [pc |-> "idle", stage |-> 1, pending |-> {}, cur |-> Null, tried |-> {},
     mailed |-> {}]

Exists(rows, l) == rows[l] # NoLead
Min(a, b) == IF a < b THEN a ELSE b

\* ------------------------------------------------------------ scheduler
\* The three SELECTs of sendFollowUpEmails. created_at < NOW() - INTERVAL 'd days'
\* is age > d; the inner JOIN keeps only leads whose company row exists.
FirstFollowUpQuery(rows, comps) ==
    {l \in LeadIds : /\ Exists(rows, l)
                     /\ rows[l].company_id \in comps
                     /\ rows[l].status = "new"
                     /\ rows[l].age > FirstFollowUpDays
                     /\ rows[l].follow_up_sent[1] = FALSE}

\* The second query without its test of the first flag.
SecondFollowUpQuery_NoFirstFlag(rows, comps) ==
    {l \in LeadIds : /\ Exists(rows, l)
                     /\ rows[l].company_id \in comps
                     /\ rows[l].status = "new"
                     /\ rows[l].age > SecondFollowUpDays
                     /\ rows[l].follow_up_sent[2] = FALSE}

SecondFollowUpQuery(rows, comps) ==
    {l \in LeadIds : /\ Exists(rows, l)
                     /\ rows[l].company_id \in comps
                     /\ rows[l].status = "new"
                     /\ rows[l].age > SecondFollowUpDays
                     /\ rows[l].follow_up_sent[1] = TRUE
                     /\ rows[l].follow_up_sent[2] = FALSE}

\* The final query with the status test forgotten.
FinalFollowUpQuery_AnyStatus(rows, comps) ==
    {l \in LeadIds : /\ Exists(rows, l)
                     /\ rows[l].company_id \in comps
                     /\ rows[l].age > FinalFollowUpDays
                     /\ rows[l].follow_up_sent[2] = TRUE
                     /\ rows[l].follow_up_sent[3] = FALSE}

\* The final query with the interval of the second one.
FinalFollowUpQuery_SevenDays(rows, comps) ==
    {l \in LeadIds : /\ Exists(rows, l)
                     /\ rows[l].company_id \in comps
                     /\ rows[l].status = "new"
                     /\ rows[l].age > SecondFollowUpDays
                     /\ rows[l].follow_up_sent[2] = TRUE
                     /\ rows[l].follow_up_sent[3] = FALSE}

FinalFollowUpQuery(rows, comps) ==
    {l \in LeadIds : /\ Exists(rows, l)
                     /\ rows[l].company_id \in comps
                     /\ rows[l].status = "new"
                     /\ rows[l].age > FinalFollowUpDays
                     /\ rows[l].follow_up_sent[2] = TRUE
                     /\ rows[l].follow_up_sent[3] = FALSE}

StageQuery(n, rows, comps) ==
    CASE n = 1 -> FirstFollowUpQuery(rows, comps)
      [] n = 2 -> SecondFollowUpQuery(rows, comps)
      [] OTHER -> FinalFollowUpQuery(rows, comps)

\* Building the message: only the first follow-up reads lead.prompt
\* (lead.prompt.split(' ')[0]), outside its try block; a NULL prompt throws.
BuildMessageThrows(n, row) == n = 1 /\ row.prompt = Null

\* The UPDATE each send function issues after sgMail.send resolved.
FirstFollowUpWrite(rows, l) ==
    [rows EXCEPT ![l].follow_up_sent[1] = TRUE]

SecondFollowUpWrite(rows, l) ==
    [rows EXCEPT ![l].follow_up_sent[2] = TRUE]

\* The closing UPDATE also clearing the earlier flags.
FinalFollowUpWrite_ResetsFlags(rows, l) ==
    [rows EXCEPT ![l].follow_up_sent = [n \in Stages |-> n = 3], ![l].status = "closed"]

FinalFollowUpWrite(rows, l) ==
    [rows EXCEPT ![l].follow_up_sent[3] = TRUE, ![l].status = "closed"]

StageWrite(n, rows, l) ==
    CASE n = 1 -> FirstFollowUpWrite(rows, l)
      [] n = 2 -> SecondFollowUpWrite(rows, l)
      [] OTHER -> FinalFollowUpWrite(rows, l)

\* What the try/catch around `await sgMail.send(msg)` leaves of the batch when
\* the send rejected for lead l: the loop goes on with the other rows.
\* A failed send left in the batch, to be tried again.
AfterFailedSend_Retry(pending, l) == pending

AfterFailedSend(pending, l) == pending \ {l}

Running(r) == run[r].pc \in {"loop", "update"}
Ended(pc) == [IdleRun EXCEPT !.pc = pc]

\* A store operation rejects (connectivity): at most MaxDbFaults times.
DbFault ==
    /\ dbFaults < MaxDbFaults
    /\ dbFaults' = dbFaults + 1

\* cron fires (or sendFollowUpEmails is called): the first query is issued.
\* Nothing in the source stops an invocation while another one is running.
StartRun(r) ==
    /\ ~Running(r)
    /\ \/ /\ run' = [run EXCEPT ![r] = [pc |-> "loop", stage |-> 1,
                         pending |-> FirstFollowUpQuery(dbLeads, dbCompanies),
                         cur |-> Null, tried |-> {}, mailed |-> {}]]
          /\ UNCHANGED dbFaults
       \/ /\ DbFault
          /\ run' = [run EXCEPT ![r] = Ended("DbError")]
    /\ UNCHANGED <<mem, dbCompanies, dbLeads, sentCount, resp, notified, widget>>

\* One iteration of a stage's for-loop up to the end of `await sgMail.send`.
\* `lead` is the row as the query returned it; the store is not read again.
\* Building the message throws: the TypeError escapes sendFirstFollowUp and the
\* outer catch ends the run; `pending` keeps the rows the loop never reached.
SendThrow(r, l) ==
    /\ run[r].pc = "loop"
    /\ l \in run[r].pending
    /\ BuildMessageThrows(run[r].stage, dbLeads[l])
    /\ run' = [run EXCEPT ![r].pc = "TypeError", ![r].pending = @ \ {l}]
    /\ UNCHANGED <<mem, dbCompanies, dbLeads, dbFaults, resp, sentCount, notified, widget>>

\* sgMail.send resolved: the email is delivered, the UPDATE comes next.
SendOk(r, l) ==
    /\ run[r].pc = "loop"
    /\ l \in run[r].pending
    /\ ~BuildMessageThrows(run[r].stage, dbLeads[l])
    /\ sentCount[l][run[r].stage] < MaxSends
    /\ sentCount' = [sentCount EXCEPT ![l][run[r].stage] = @ + 1]
    /\ run' = [run EXCEPT ![r].pc = "update", ![r].cur = l,
                   ![r].pending = @ \ {l},
                   ![r].tried = @ \cup {l},
                   ![r].mailed = @ \cup {l}]
    /\ UNCHANGED <<mem, dbCompanies, dbLeads, dbFaults, resp, notified, widget>>

\* sgMail.send rejected: caught and logged, the loop goes on.
SendFail(r, l) ==
    /\ run[r].pc = "loop"
    /\ l \in run[r].pending
    /\ ~BuildMessageThrows(run[r].stage, dbLeads[l])
    /\ run' = [run EXCEPT ![r].pending = AfterFailedSend(@, l),
                   ![r].tried = @ \cup {l}]
    /\ UNCHANGED <<mem, dbCompanies, dbLeads, dbFaults, resp, sentCount, notified, widget>>

SendStep(r) ==
    \E l \in LeadIds : SendThrow(r, l) \/ SendOk(r, l) \/ SendFail(r, l)

\* `await db.query('UPDATE leads SET ...')` after a resolved send.
UpdateStep(r) ==
    /\ run[r].pc = "update"
    /\ \/ /\ dbLeads' = StageWrite(run[r].stage, dbLeads, run[r].cur)
          /\ UNCHANGED dbFaults
       \/ /\ DbFault            \* the UPDATE rejected: caught, logged
          /\ UNCHANGED dbLeads
    /\ run' = [run EXCEPT ![r].pc = "loop", ![r].cur = Null]
    /\ UNCHANGED <<mem, dbCompanies, sentCount, resp, notified, widget>>

\* The for-loop of a stage is exhausted: next query, or the run completes.
NextStage(r) ==
    /\ run[r].pc = "loop"
    /\ run[r].pending = {}
    /\ IF run[r].stage < 3
       THEN \/ /\ run' = [run EXCEPT ![r].stage = @ + 1,
                              ![r].pending = StageQuery(run[r].stage + 1, dbLeads, dbCompanies),
                              ![r].tried = {}]
               /\ UNCHANGED dbFaults
            \/ /\ DbFault
               /\ run' = [run EXCEPT ![r] = Ended("DbError")]
       ELSE /\ run' = [run EXCEPT ![r] = Ended("complete")]
            /\ UNCHANGED dbFaults
    /\ UNCHANGED <<mem, dbCompanies, dbLeads, sentCount, resp, notified, widget>>

\* ------------------------------------------------------------ HTTP API
\* POST /api/demo/create (the first registered handler): company row demo_company.
PostDemoCreate ==
    /\ DemoCompanyId \notin dbCompanies
    /\ dbCompanies' = dbCompanies \cup {DemoCompanyId}
    /\ resp' = Resp("demo", 200, Null, <<>>)
    /\ UNCHANGED <<mem, dbLeads, run, sentCount, dbFaults, notified, widget>>

NewLeadId == CHOOSE l \in LeadIds : ~Exists(dbLeads, l)

\* The text of a lead id as uuidv4() returned it, character by character.
Uuid(l) ==
    IF l = "lead_a"
    THEN <<"3", "f", "a", "8", "5", "f", "6", "4", "-", "5", "7", "1", "7", "-",
           "4", "5", "6", "2", "-", "b", "3", "f", "c", "-",
           "2", "c", "9", "6", "3", "f", "6", "6", "a", "f", "a", "6">>
    ELSE <<"0", "1", "2", "3", "4", "5", "6", "7", "-", "8", "9", "a", "b", "-",
           "4", "c", "d", "e", "-", "8", "f", "0", "1", "-",
           "2", "3", "4", "5", "6", "7", "8", "9", "a", "b", "c", "d">>

\* String.prototype.substring(start, end): characters start .. end - 1, 0-based.
Substring(str, start, end) == SubSeq(str, start + 1, Min(end, Len(str)))

\* String.prototype.toUpperCase on the characters a uuid is made of.
LowerCase == <<"a", "b", "c", "d", "e", "f">>
UpperCase == <<"A", "B", "C", "D", "E", "F">>
ToUpperCase(str) ==
    [i \in 1..Len(str) |->
        IF \E k \in 1..Len(LowerCase) : LowerCase[k] = str[i]
        THEN UpperCase[CHOOSE k \in 1..Len(LowerCase) : LowerCase[k] = str[i]]
        ELSE str[i]]

\* `RV-${leadId.substring(0, 8)}`, the upper-casing left out.
ReferenceCode_AsIs(leadId) == <<"R", "V", "-">> \o Substring(Uuid(leadId), 0, 8)

\* `RV-${leadId.substring(0, 8).toUpperCase()}`
ReferenceCode(leadId) == <<"R", "V", "-">> \o ToUpperCase(Substring(Uuid(leadId), 0, 8))

\* An INSERT that would also mark the first follow-up as sent.
NewLeadRow_Flagged(leadId, companyId, prompt) ==
    [company_id |-> companyId, status |-> "new", age |-> 0,
     follow_up_sent |-> [n \in Stages |-> n = 1], prompt |-> prompt,
     reference_code |-> ReferenceCode(leadId)]

NewLeadRow(leadId, companyId, prompt) ==
    [company_id |-> companyId, status |-> "new", age |-> 0,
     follow_up_sent |-> NoFlags, prompt |-> prompt,
     reference_code |-> ReferenceCode(leadId)]

\* The days on which the model lets a capture arrive.
CaptureDay ==
    \A l \in LeadIds : Exists(dbLeads, l) => dbLeads[l].age \in {0, CaptureGap, MaxAge}

\* sendCustomerEmail and sendCompanyNotification: what a call adds to the mail
\* handed to the mail API. POST /api/lead calls neither ("TODO: Send emails").
SendCustomerEmail(box, leadId) == box \cup {<<leadId, "customer">>}
SendCompanyNotification(box, leadId) == box \cup {<<leadId, "company">>}

\* A validation that would not look at the phone number.
MissingRequired_NoPhone(companyId, hasName, hasEmail, hasPhone) ==
    companyId \in {Null, ""} \/ ~hasName \/ ~hasEmail

\* `!companyId || !customerName || !email || !phone`
MissingRequired(companyId, hasName, hasEmail, hasPhone) ==
    companyId \in {Null, ""} \/ ~hasName \/ ~hasEmail \/ ~hasPhone

\* leads.company_id REFERENCES companies(id): the INSERT is accepted only
\* when a companies row has that id.
ForeignKeyHolds_None(comps, companyId) == TRUE
ForeignKeyHolds(comps, companyId) == companyId \in comps

\* POST /api/lead. The three required contact fields are present or absent.
PostLead(companyId, hasName, hasEmail, hasPhone, prompt) ==
    /\ \E l \in LeadIds : ~Exists(dbLeads, l)
    /\ CaptureDay
    /\ IF MissingRequired(companyId, hasName, hasEmail, hasPhone)
       THEN /\ resp' = Resp("lead", 400, Null, <<>>)
            /\ UNCHANGED <<dbLeads, dbFaults>>
       ELSE IF ForeignKeyHolds(dbCompanies, companyId)
       THEN \/ \* INSERT succeeded
               /\ dbLeads' = [dbLeads EXCEPT ![NewLeadId] = NewLeadRow(NewLeadId, companyId, prompt)]
               /\ resp' = [Resp("lead", 200, NewLeadId, <<>>)
                              EXCEPT !.referenceCode = ReferenceCode(NewLeadId)]
               /\ UNCHANGED dbFaults
            \/ \* INSERT rejected: the store is down
               /\ DbFault
               /\ resp' = Resp("lead", 500, Null, <<>>)
               /\ UNCHANGED dbLeads
       ELSE \* INSERT rejected: leads_company_id_fkey
            /\ resp' = Resp("lead", 500, Null, <<>>)
            /\ UNCHANGED <<dbLeads, dbFaults>>
    /\ UNCHANGED <<mem, dbCompanies, run, sentCount, notified, widget>>

\* ------------------------------------------------ in-memory endpoints
\* GET /api/demo/create seeds ten leads, `for (let i = 1; i <= 10; i++)`.
DemoLeadCount == 10
DemoLeadIds == <<"demo_lead_1", "demo_lead_2", "demo_lead_3", "demo_lead_4",
                 "demo_lead_5", "demo_lead_6", "demo_lead_7", "demo_lead_8",
                 "demo_lead_9", "demo_lead_10">>
DemoStatuses == <<"new", "contacted", "quoted", "won", "lost">>

\* createdAt = now - i days is kept as an age in days; updatedAt = now.
DemoLead(i) ==
    [id |-> DemoLeadIds[i], companyId |-> DemoCompanyId,
     status |-> DemoStatuses[(i % 5) + 1],
     projectValue |-> IF i % 5 = 3 THEN 12000 + (i * 1000) ELSE NoValue,
     createdAge |-> Min(i, MaxAge), wonAge |-> NoValue, updatedAge |-> 0]

\* A password as the bytes of its text.
Demo123 == <<100, 101, 109, 111, 49, 50, 51>>

\* Buffer.from(password).toString('base64'): three bytes become four 6-bit
\* digits (positions in the base64 alphabet), "=" padding is digit 64.
RECURSIVE Base64(_)
Base64(bytes) ==
    IF Len(bytes) = 0 THEN <<>>
    ELSE IF Len(bytes) = 1
    THEN <<bytes[1] \div 4, (bytes[1] % 4) * 16, 64, 64>>
    ELSE IF Len(bytes) = 2
    THEN <<bytes[1] \div 4, ((bytes[1] % 4) * 16) + (bytes[2] \div 16),
           (bytes[2] % 16) * 4, 64>>
    ELSE <<bytes[1] \div 4, ((bytes[1] % 4) * 16) + (bytes[2] \div 16),
           ((bytes[2] % 16) * 4) + (bytes[3] \div 64), bytes[3] % 64>>
           \o Base64(SubSeq(bytes, 4, Len(bytes)))

HashPassword(password) == Base64(password)

\* commissionRate is kept in percent: 0.02 is 2.
DefaultCommissionRate == 2

DemoCompany ==
    [id |-> DemoCompanyId, email |-> "demo@example.com",
     password |-> HashPassword(Demo123), commissionRate |-> DefaultCommissionRate]

\* GET /api/demo/create
GetDemoCreate ==
    /\ IF \A c \in companies : c.id # DemoCompanyId
       THEN /\ companies' = companies \cup {DemoCompany}
            /\ leads' = leads \o [i \in 1..DemoLeadCount |-> DemoLead(i)]
       ELSE UNCHANGED mem
    /\ resp' = Resp("demo", 200, Null, <<>>)
    /\ UNCHANGED <<dbCompanies, dbLeads, run, sentCount, dbFaults, notified, widget>>

\* JavaScript truthiness of a request field.
Truthy(v) == v \notin {Null, ""}
TruthyNumber(v) == v \notin {NoValue, 0}

\* companyLeads.sort((a, b) => new Date(b.createdAt) - new Date(a.createdAt)):
\* a stable sort, newest (smallest age) first.
RECURSIVE InsertByCreated(_, _)
InsertByCreated(sorted, x) ==
    IF sorted = <<>> THEN <<x>>
    ELSE IF Head(sorted).createdAge <= x.createdAge
         THEN <<Head(sorted)>> \o InsertByCreated(Tail(sorted), x)
         ELSE <<x>> \o sorted

RECURSIVE SortNewestFirst(_)
SortNewestFirst(seq) ==
    IF seq = <<>> THEN <<>>
    ELSE InsertByCreated(SortNewestFirst(SubSeq(seq, 1, Len(seq) - 1)), seq[Len(seq)])

OwnedBy(lead, companyId) == lead.companyId = companyId
HasStatus(lead, status) == lead.status = status

\* The filter and sort of GET /api/company/:companyId/leads.
ListLeads(store, companyId, status) ==
    LET owned == SelectSeq(store, LAMBDA lead : OwnedBy(lead, companyId))
        kept  == IF Truthy(status)
                 THEN SelectSeq(owned, LAMBDA lead : HasStatus(lead, status))
                 ELSE owned
    IN  SortNewestFirst(kept)

\* GET /api/company/:companyId/leads?status=
GetLeads(companyId, status) ==
    /\ resp' = [Resp("list", 200, companyId, ListLeads(leads, companyId, status))
                   EXCEPT !.total = Len(ListLeads(leads, companyId, status))]
    /\ UNCHANGED <<mem, dbCompanies, dbLeads, run, sentCount, dbFaults, notified, widget>>

\* The assignments of PUT /api/lead/:leadId to the lead it found.
UpdatedLead(lead, status, projectValue) ==
    LET l1 == IF Truthy(status) THEN [lead EXCEPT !.status = status] ELSE lead
        l2 == IF TruthyNumber(projectValue)
              THEN [l1 EXCEPT !.projectValue = projectValue,
                              !.wonAge = IF status = "won" THEN 0 ELSE @]
              ELSE l1
    IN  [l2 EXCEPT !.updatedAge = 0]

\* A lookup that would fall back to the first stored lead.
FindLead_OrFirst(store, leadId) ==
    LET found == {i \in 1..Len(store) : store[i].id = leadId}
    IN  IF found = {} THEN Min(1, Len(store))
        ELSE CHOOSE j \in found : \A k \in found : j <= k

\* leads.find(l => l.id === leadId): the position of the first match, 0 for
\* undefined.
FindLead(store, leadId) ==
    LET found == {i \in 1..Len(store) : store[i].id = leadId}
    IN  IF found = {} THEN 0
        ELSE CHOOSE j \in found : \A k \in found : j <= k

\* PUT /api/lead/:leadId
PutLead(leadId, status, projectValue) ==
    LET i == FindLead(leads, leadId)
    IN  /\ IF i = 0
           THEN /\ resp' = Resp("update", 404, Null, <<>>)
                /\ UNCHANGED leads
           ELSE LET lead == UpdatedLead(leads[i], status, projectValue)
                IN  /\ leads' = [leads EXCEPT ![i] = lead]
                    /\ resp' = Resp("update", 200, leadId, <<lead>>)
        /\ UNCHANGED <<companies, dbCompanies, dbLeads, run, sentCount, dbFaults, notified, widget>>

\* GET /api/company/:companyId/stats?month=YYYY-MM. `createdAt.startsWith(month)`
\* with createdAt kept as an age in days: today is day DayOfMonth of the
\* current month, the month before it had PrevMonthDays days.
InMonth(lead, month) ==
    CASE month = "current"  -> lead.createdAge < DayOfMonth
      [] month = "previous" -> /\ lead.createdAge >= DayOfMonth
                               /\ lead.createdAge < DayOfMonth + PrevMonthDays
      [] OTHER -> FALSE

\* A won-filter that would also take quoted leads.
IsWon_OrQuoted(lead) == lead.status \in {"won", "quoted"}

IsWon(lead) == lead.status = "won"

\* wonLeads.reduce((sum, lead) => sum + (lead.projectValue || 0), 0)
RECURSIVE SumProjectValue(_)
SumProjectValue(seq) ==
    IF seq = <<>> THEN 0
    ELSE SumProjectValue(SubSeq(seq, 1, Len(seq) - 1))
           + (IF TruthyNumber(seq[Len(seq)].projectValue) THEN seq[Len(seq)].projectValue ELSE 0)

\* Number.prototype.toFixed of a / b with `digits` decimals, kept as the
\* integer a / b * 10^digits rounded to nearest (a, b >= 0, b > 0).
ToFixed(a, b, scale) == ((2 * a * scale) + b) \div (2 * b)

\* A conversion rate computed without looking at the total: 0 / 0 is NaN.
NaN == -2
ConversionRate_Unguarded(won, total) ==
    IF total = 0 THEN NaN ELSE ToFixed(won * 100, total, 10)

\* totalLeads > 0 ? (wonLeads.length / totalLeads * 100).toFixed(1) : 0,
\* in tenths of a percent.
ConversionRate(won, total) ==
    IF total > 0 THEN ToFixed(won * 100, total, 10) ELSE 0

\* wonLeads.length > 0 ? (totalRevenue / wonLeads.length).toFixed(2) : 0,
\* in hundredths.
AverageProjectValue(revenue, won) ==
    IF won > 0 THEN ToFixed(revenue, won, 100) ELSE 0

\* `company?.commissionRate || 0.02`, company = companies.get(companyId)
CommissionRate(comps, companyId) ==
    IF \A c \in comps : c.id # companyId THEN DefaultCommissionRate
    ELSE LET company == CHOOSE c \in comps : c.id = companyId
         IN  IF TruthyNumber(company.commissionRate)
             THEN company.commissionRate ELSE DefaultCommissionRate

\* commissionAmount is kept in hundredths (revenue times the rate in percent).
StatsOf(store, comps, companyId, month) ==
    LET owned == SelectSeq(store, LAMBDA lead : OwnedBy(lead, companyId))
        companyLeads == IF Truthy(month)
                        THEN SelectSeq(owned, LAMBDA lead : InMonth(lead, month))
                        ELSE owned
        wonLeads == SelectSeq(companyLeads, LAMBDA lead : IsWon(lead))
        totalRevenue == SumProjectValue(wonLeads)
    IN  [totalLeads |-> Len(companyLeads),
         newLeads |-> Len(SelectSeq(companyLeads, LAMBDA lead : HasStatus(lead, "new"))),
         quotedLeads |-> Len(SelectSeq(companyLeads, LAMBDA lead : HasStatus(lead, "quoted"))),
         wonLeads |-> Len(wonLeads),
         lostLeads |-> Len(SelectSeq(companyLeads, LAMBDA lead : HasStatus(lead, "lost"))),
         totalRevenue |-> totalRevenue,
         commissionAmount |-> totalRevenue * CommissionRate(comps, companyId),
         conversionRate |-> ConversionRate(Len(wonLeads), Len(companyLeads)),
         averageProjectValue |-> AverageProjectValue(totalRevenue, Len(wonLeads))]

GetStats(companyId, month) ==
    /\ resp' = [Resp("stats", 200, companyId, <<>>)
                   EXCEPT !.stats = StatsOf(leads, companies, companyId, month)]
    /\ UNCHANGED <<mem, dbCompanies, dbLeads, run, sentCount, dbFaults, notified, widget>>

\* GET /api/company/:companyId
GetCompany(companyId) ==
    /\ IF \A c \in companies : c.id # companyId
       THEN resp' = Resp("company", 404, Null, <<>>)
       ELSE resp' = Resp("company", 200, companyId, <<>>)
    /\ UNCHANGED <<mem, dbCompanies, dbLeads, run, sentCount, dbFaults, notified, widget>>

\* ------------------------------------------------ company accounts
\* Ids `company_${uuidv4()}` of registered companies, request emails, and
\* request passwords as byte sequences (<<>>: the field is missing or empty).
RegisteredIds == {"company_1", "company_2"}
EmailInputs == {Null, "demo@example.com", "a@example.com"}
Secret == <<115, 51>>
PasswordInputs == {<<>>, Demo123, Secret}

NewCompanyId == CHOOSE id \in RegisteredIds : \A c \in companies : c.id # id

\* POST /api/company/register: no validation, no lookup; the record carries
\* no password.
PostCompanyRegister(email) ==
    /\ \E id \in RegisteredIds : \A c \in companies : c.id # id
    /\ companies' = companies \cup
          {[id |-> NewCompanyId, email |-> email, password |-> <<>>,
            commissionRate |-> DefaultCommissionRate]}
    /\ resp' = Resp("register", 200, NewCompanyId, <<>>)
    /\ UNCHANGED <<leads, dbCompanies, dbLeads, run, sentCount, dbFaults, notified, widget>>

\* Array.from(companies.values()).find(c => c.email === email)
EmailRegistered(comps, email) == \E c \in comps : c.email = email

\* POST /api/auth/register (the first registered handler, in memory).
PostAuthRegister(hasName, email, password) ==
    /\ \E id \in RegisteredIds : \A c \in companies : c.id # id
    /\ IF ~hasName \/ ~Truthy(email) \/ password = <<>>
       THEN /\ resp' = Resp("register", 400, Null, <<>>)
            /\ UNCHANGED companies
       ELSE IF EmailRegistered(companies, email)
       THEN /\ resp' = Resp("register", 400, Null, <<>>)
            /\ UNCHANGED companies
       ELSE /\ companies' = companies \cup
                  {[id |-> NewCompanyId, email |-> email,
                    password |-> HashPassword(password),
                    commissionRate |-> DefaultCommissionRate]}
            /\ resp' = Resp("register", 200, NewCompanyId, <<>>)
    /\ UNCHANGED <<leads, dbCompanies, dbLeads, run, sentCount, dbFaults, notified, widget>>

\* The companies row of an id: only POST /api/demo/create inserts one.
DbCompanyRow(id) ==
    [id |-> id, email |-> "demo@example.com", password |-> HashPassword(Demo123)]

\* hashPassword(password) === hash
VerifyPassword(password, hash) == HashPassword(password) = hash

\* POST /api/auth/login: SELECT * FROM companies WHERE email = $1
PostAuthLogin(email, password) ==
    /\ IF ~Truthy(email) \/ password = <<>>
       THEN /\ resp' = Resp("login", 400, Null, <<>>)
            /\ UNCHANGED dbFaults
       ELSE \/ LET rows == {DbCompanyRow(id) : id \in dbCompanies}
                   found == {c \in rows : c.email = email}
               IN  /\ IF found = {}
                      THEN resp' = Resp("login", 401, Null, <<>>)
                      ELSE LET company == CHOOSE c \in found : TRUE
                           IN  IF ~VerifyPassword(password, company.password)
                               THEN resp' = Resp("login", 401, Null, <<>>)
                               ELSE resp' = Resp("login", 200, company.id, <<>>)
                   /\ UNCHANGED dbFaults
            \/ \* the query rejects: the store is down
               /\ DbFault
               /\ resp' = Resp("login", 500, Null, <<>>)
    /\ UNCHANGED <<mem, dbCompanies, dbLeads, run, sentCount, notified, widget>>

\* Dashboard update of a persisted lead's status.
DbUpdateLead(l, status) ==
    /\ Exists(dbLeads, l)
    /\ dbLeads[l].status # status
    /\ dbLeads' = [dbLeads EXCEPT ![l].status = status]
    /\ UNCHANGED <<mem, dbCompanies, run, sentCount, dbFaults, resp, notified, widget>>

\* A day passes: every timestamp is a day older (ages saturate at MaxAge).
Older(age) == IF age = NoValue \/ age >= MaxAge THEN age ELSE age + 1

Tick ==
    /\ \/ \E l \in LeadIds : Exists(dbLeads, l) /\ dbLeads[l].age < MaxAge
       \/ \E i \in 1..Len(leads) : leads[i].updatedAge < MaxAge
    /\ dbLeads' = [l \in LeadIds |->
                     IF Exists(dbLeads, l)
                     THEN [dbLeads[l] EXCEPT !.age = Older(@)]
                     ELSE dbLeads[l]]
    /\ leads' = [i \in 1..Len(leads) |->
                   [leads[i] EXCEPT !.createdAge = Older(@), !.wonAge = Older(@),
                                    !.updatedAge = Older(@)]]
    /\ UNCHANGED <<companies, dbCompanies, run, sentCount, dbFaults, resp, notified, widget>>

\* ------------------------------------------------------------ specification
\* ------------------------------------------------------------ widget
\* Files the visitor may select in one page view.
MaxSelect == 2

server == <<dbCompanies, dbLeads, companies, leads, run, sentCount, dbFaults, notified, resp>>

\* The page as the script finds it. The class list of the after image and
\* the disabled state of the two buttons come from the page's markup.
LoadedWidget(blurred, generateDisabled, unlockDisabled) ==
    [selected |-> 0,                  \* files passed to handleFile so far
     upload |-> [k \in 1..MaxSelect |-> "none"],   \* each uploadImage call
     readers |-> {},                  \* FileReaders whose onload is pending
     previewImg |-> 0,                \* previewImg.src / originalImageData
     uploadAreaShown |-> TRUE,
     uploadedFilename |-> 0,          \* 0 is ''
     prompt |-> "",
     generateDisabled |-> generateDisabled,
     formShown |-> TRUE,              \* .rv-main-form
     loading |-> FALSE,
     resultsShown |-> FALSE,
     generating |-> {},               \* filenames of /api/generate requests in flight
     afterImg |-> 0,                  \* afterImg.src / generatedImageUrl
     blurred |-> blurred,             \* afterImg has class rv-blurred
     unlockDisabled |-> unlockDisabled,
     submitting |-> FALSE,            \* an /api/lead request is in flight
     successShown |-> FALSE,          \* successMessage
     errorMsg |-> ""]

\* The name the server gives upload k (multer's filename, one per upload).
Filename(k) == k

\* showError(message)
ShowError(w, message) == [w EXCEPT !.errorMsg = message]

\* setTimeout(() => errorMsg.style.display = 'none', 5000)
HideError ==
    /\ widget.errorMsg # ""
    /\ widget' = [widget EXCEPT !.errorMsg = ""]
    /\ UNCHANGED server

\* checkFormComplete()
CheckFormComplete(w) ==
    [w EXCEPT !.generateDisabled = ~(w.uploadedFilename # 0 /\ w.prompt # "")]

\* handleFile(file), from a drop on or a click of the upload area: the file
\* is an image of at most 10 MB or it is not.
HandleFile(valid) ==
    /\ widget.uploadAreaShown
    /\ widget.selected < MaxSelect
    /\ IF ~valid
       THEN widget' = ShowError(widget, "file")
       ELSE LET k == widget.selected + 1
            IN  widget' = [widget EXCEPT !.selected = k,
                                         !.readers = @ \cup {k},
                                         !.upload[k] = "inflight"]
    /\ UNCHANGED server

\* reader.onload of file k
ReaderOnload(k) ==
    /\ k \in widget.readers
    /\ widget' = [widget EXCEPT !.readers = @ \ {k},
                                 !.previewImg = k,
                                 !.uploadAreaShown = FALSE]
    /\ UNCHANGED server

\* The name the widget keeps when the response of upload k arrives.
UploadedFilename(w, k) == Filename(k)

\* uploadImage: the response of upload k says success.
UploadOk(k) ==
    /\ widget.upload[k] = "inflight"
    /\ widget' = CheckFormComplete(
                     [widget EXCEPT !.upload[k] = "ok",
                                    !.uploadedFilename = UploadedFilename(widget, k)])
    /\ UNCHANGED server

\* uploadImage: the response of upload k says no success (nothing happens)
\* or the request throws (showError).
UploadFail(k) ==
    /\ widget.upload[k] = "inflight"
    /\ \/ widget' = [widget EXCEPT !.upload[k] = "failed"]
       \/ widget' = ShowError([widget EXCEPT !.upload[k] = "failed"], "upload")
    /\ UNCHANGED server

\* styleSelect change / customPrompt input
PromptInput(p) ==
    /\ widget.prompt # p
    /\ widget' = CheckFormComplete([widget EXCEPT !.prompt = p])
    /\ UNCHANGED server

\* generateBtn click. One /api/generate request per filename at a time.
GenerateClick ==
    /\ ~widget.generateDisabled
    /\ widget.uploadedFilename \notin widget.generating
    /\ IF widget.prompt = ""
       THEN widget' = ShowError(widget, "style")
       ELSE IF widget.uploadedFilename = 0
       THEN widget' = ShowError(widget, "image")
       ELSE widget' = [widget EXCEPT !.formShown = FALSE,
                                     !.loading = TRUE,
                                     !.errorMsg = "",
                                     !.generating = @ \cup {widget.uploadedFilename}]
    /\ UNCHANGED server

\* afterImg.classList.add('rv-blurred')
ClassListAdd_Skipped(hasClass) == hasClass
ClassListAdd(hasClass) == TRUE

\* The /api/generate response for filename f says success.
GenerateOk(f) ==
    /\ f \in widget.generating
    /\ widget' = [widget EXCEPT !.generating = @ \ {f},
                                 !.afterImg = f,
                                 !.blurred = ClassListAdd(@),
                                 !.loading = FALSE,
                                 !.resultsShown = TRUE]
    /\ UNCHANGED server

\* The /api/generate response for filename f says no success, or throws.
GenerateFail(f) ==
    /\ f \in widget.generating
    /\ widget' = ShowError([widget EXCEPT !.generating = @ \ {f},
                                          !.loading = FALSE,
                                          !.formShown = TRUE], "generate")
    /\ UNCHANGED server

\* leadForm submit
LeadFormSubmit ==
    /\ ~widget.unlockDisabled
    /\ ~widget.submitting
    /\ widget' = [widget EXCEPT !.unlockDisabled = TRUE, !.submitting = TRUE]
    /\ UNCHANGED server

\* The /api/lead response says success.
SubmitOk ==
    /\ widget.submitting
    /\ widget' = [widget EXCEPT !.submitting = FALSE,
                                 !.blurred = FALSE,
                                 !.successShown = TRUE]
    /\ UNCHANGED server

\* The /api/lead response says no success, or throws.
SubmitFail ==
    /\ widget.submitting
    /\ widget' = ShowError([widget EXCEPT !.submitting = FALSE,
                                          !.unlockDisabled = FALSE], "submit")
    /\ UNCHANGED server

Init ==
    /\ dbCompanies = {}
    /\ dbLeads = [l \in LeadIds |-> NoLead]
    /\ run = [r \in Runs |-> IdleRun]
    /\ sentCount = [l \in LeadIds |-> [n \in Stages |-> 0]]
    /\ companies = {}
    /\ leads = <<>>
    /\ dbFaults = 0
    /\ notified = {}
    /\ resp = NoResp
    /\ widget = LoadedWidget(TRUE, TRUE, FALSE)

\* Requests that arrive while the scheduler runs: captures for a known or an
\* unknown company, and dashboard updates of captured leads.
Api ==
    \/ PostDemoCreate
    \/ \E c \in CompanyIdInputs \ {Null}, p \in PromptInputs : PostLead(c, TRUE, TRUE, TRUE, p)
    \/ \E l \in LeadIds : PutLead(l, "contacted", NoValue)
    \/ \E l \in LeadIds, s \in DashStatuses : DbUpdateLead(l, s)

Scheduler(r) ==
    \/ StartRun(r)
    \/ SendStep(r)
    \/ UpdateStep(r)
    \/ NextStage(r)

\* The daily job, one invocation at a time.
Next ==
    \/ Api
    \/ Tick
    \/ Scheduler("run1")

Spec == Init /\ [][Next]_vars

\* No store operation rejects: the fault budget is spent from the start.
InitNoFaults ==
    /\ dbCompanies = {}
    /\ dbLeads = [l \in LeadIds |-> NoLead]
    /\ run = [r \in Runs |-> IdleRun]
    /\ sentCount = [l \in LeadIds |-> [n \in Stages |-> 0]]
    /\ companies = {}
    /\ leads = <<>>
    /\ dbFaults = MaxDbFaults
    /\ notified = {}
    /\ resp = NoResp
    /\ widget = LoadedWidget(TRUE, TRUE, FALSE)

\* Invocations of the job may overlap.
NextOverlap ==
    \/ PostDemoCreate
    \/ \E p \in PromptInputs : PostLead(DemoCompanyId, TRUE, TRUE, TRUE, p)
    \/ Tick
    \/ \E r \in Runs : Scheduler(r)

SpecOverlap == InitNoFaults /\ [][NextOverlap]_vars

\* The HTTP API alone, within one day.
NextApi ==
    \/ PostDemoCreate
    \/ GetDemoCreate
    \/ \E c \in CompanyIdInputs, hn, he, hp \in BOOLEAN, p \in PromptInputs :
         PostLead(c, hn, he, hp, p)
    \/ \E c \in CompanyIdInputs, s \in StatusFilters : GetLeads(c, s)
    \/ \E l \in PutLeadIds, s \in StatusInputs, v \in ProjectValueInputs : PutLead(l, s, v)
    \/ \E c \in CompanyIdInputs \ {Null}, m \in MonthInputs : GetStats(c, m)
    \/ \E c \in CompanyIdInputs \ {Null} : GetCompany(c)

SpecApi == Init /\ [][NextApi]_vars

\* One page view of the widget; the server's answers are inputs.
InitWidget ==
    /\ dbCompanies = {}
    /\ dbLeads = [l \in LeadIds |-> NoLead]
    /\ run = [r \in Runs |-> IdleRun]
    /\ sentCount = [l \in LeadIds |-> [n \in Stages |-> 0]]
    /\ companies = {}
    /\ leads = <<>>
    /\ dbFaults = 0
    /\ notified = {}
    /\ resp = NoResp
    /\ \E b, g, u \in BOOLEAN : widget = LoadedWidget(b, g, u)

NextWidget ==
    \/ \E valid \in BOOLEAN : HandleFile(valid)
    \/ \E k \in 1..MaxSelect : ReaderOnload(k)
    \/ \E k \in 1..MaxSelect : UploadOk(k)
    \/ \E k \in 1..MaxSelect : UploadFail(k)
    \/ \E p \in {"", "modern"} : PromptInput(p)
    \/ GenerateClick
    \/ \E f \in 1..MaxSelect : GenerateOk(f)
    \/ \E f \in 1..MaxSelect : GenerateFail(f)
    \/ LeadFormSubmit
    \/ SubmitOk
    \/ SubmitFail
    \/ HideError

SpecWidget == InitWidget /\ [][NextWidget]_vars

\* Company accounts: registration, demo seeding, login, lookup.
NextAuth ==
    \/ PostDemoCreate
    \/ GetDemoCreate
    \/ \E e \in EmailInputs : PostCompanyRegister(e)
    \/ \E hn \in BOOLEAN, e \in EmailInputs, p \in PasswordInputs : PostAuthRegister(hn, e, p)
    \/ \E e \in EmailInputs, p \in PasswordInputs : PostAuthLogin(e, p)
    \/ \E c \in (CompanyIdInputs \ {Null}) \cup RegisteredIds : GetCompany(c)

SpecAuth == Init /\ [][NextAuth]_vars

\* The stats computation over a company record with any stored commission
\* rate (unset, 0 %, 2 %, 100 %) and that company's leads.
CommissionRates == {NoValue, 0, DefaultCommissionRate, 100}

InitStats ==
    /\ dbCompanies = {}
    /\ dbLeads = [l \in LeadIds |-> NoLead]
    /\ run = [r \in Runs |-> IdleRun]
    /\ sentCount = [l \in LeadIds |-> [n \in Stages |-> 0]]
    /\ \E rate \in CommissionRates :
          companies = {[DemoCompany EXCEPT !.commissionRate = rate]}
    /\ leads = [i \in 1..DemoLeadCount |-> DemoLead(i)]
    /\ dbFaults = 0
    /\ notified = {}
    /\ resp = NoResp
    /\ widget = LoadedWidget(TRUE, TRUE, FALSE)

NextStats ==
    \/ \E l \in PutLeadIds, s \in StatusInputs, v \in ProjectValueInputs : PutLead(l, s, v)
    \/ \E c \in CompanyIdInputs \ {Null}, m \in MonthInputs : GetStats(c, m)

SpecStats == InitStats /\ [][NextStats]_vars

\* The daily job under fair scheduling: days keep passing, cron keeps firing
\* and the job keeps stepping, and for every lead a send that can be attempted
\* again and again eventually resolves. No store operation rejects and nobody
\* changes a status by hand.
NextLive ==
    \/ PostDemoCreate
    \/ \E p \in PromptInputs : PostLead(DemoCompanyId, TRUE, TRUE, TRUE, p)
    \/ Tick
    \/ Scheduler("run1")

Fairness ==
    /\ WF_vars(Tick)
    /\ WF_vars(Scheduler("run1"))
    /\ \A l \in LeadIds : SF_vars(SendOk("run1", l))

SpecLive == InitNoFaults /\ [][NextLive]_vars /\ Fairness

\* ------------------------------------------------------------------ claims
Flag(l, n) == dbLeads[l].follow_up_sent[n]
\* Run r is between the resolved send of l's email and the UPDATE that records it.
AwaitingWrite(l) == \E r \in Runs : run[r].pc = "update" /\ run[r].cur = l
\* Lead l is in the batch some run still has to process for stage n.
Selected(l, n) == \E r \in Runs : Running(r) /\ run[r].stage = n /\ l \in run[r].pending
Threshold(n) ==
    CASE n = 1 -> FirstFollowUpDays [] n = 2 -> SecondFollowUpDays [] OTHER -> FinalFollowUpDays

\* C1: once the stage-1 email to a lead was delivered and its handling is over,
\* the lead has flag1 = true and no first-follow-up pass holds it again.
C1_SentOnceThenExcluded ==
    \A l \in LeadIds :
        (Exists(dbLeads, l) /\ sentCount[l][1] > 0 /\ ~AwaitingWrite(l))
            => (Flag(l, 1) /\ ~Selected(l, 1))

\* C2: once the final email to a lead was delivered and its handling is over,
\* the lead has flag3 = true and none of the three stage queries returns it.
C2_FinalThenExcluded ==
    \A l \in LeadIds :
        (Exists(dbLeads, l) /\ sentCount[l][3] > 0 /\ ~AwaitingWrite(l))
            => (Flag(l, 3) /\ \A n \in Stages : l \notin StageQuery(n, dbLeads, dbCompanies))

C4_FlagsMonotonic ==
    [][\A l \in LeadIds : Exists(dbLeads, l) =>
          /\ Exists(dbLeads', l)
          /\ \A n \in Stages :
                /\ dbLeads[l].follow_up_sent[n] => dbLeads'[l].follow_up_sent[n]
                /\ dbLeads'[l].follow_up_sent[n] # dbLeads[l].follow_up_sent[n]
                      => \E r \in Runs : /\ run[r].pc = "update"
                                         /\ run[r].cur = l
                                         /\ run[r].stage = n]_vars

\* A lead that holds all three flags and was closed by the scheduler, beside a
\* lead captured the same day.
C4_Witness ==
    \E l, k \in LeadIds :
        /\ Exists(dbLeads, l)
        /\ dbLeads[l].status = "closed"
        /\ \A n \in Stages : Flag(l, n)
        /\ Exists(dbLeads, k)
        /\ dbLeads[k].age = 0

\* C5: a run that was ended by an exception raised while handling one lead has
\* nevertheless processed every selected lead and evaluated all three stages.
C5_LeadFailureDoesNotAbort ==
    \A r \in Runs :
        run[r].pc = "TypeError" => (run[r].pending = {} /\ run[r].stage = 3)

\* C6: flagN is true only after a stage-N email was delivered, a lead is closed
\* only after its final email was delivered, and a lead a run has already
\* attempted in a stage is not in that stage's batch any more.
C6_FlagOnlyAfterSend ==
    /\ \A l \in LeadIds : Exists(dbLeads, l) =>
          /\ \A n \in Stages : Flag(l, n) => sentCount[l][n] > 0
          /\ dbLeads[l].status = "closed" => sentCount[l][3] > 0
    /\ \A r \in Runs : Running(r) => run[r].tried \cap run[r].pending = {}

\* A send failed for a lead in the first stage (attempted, nothing delivered)
\* and the same run has moved on; the lead is unflagged and still 'new'.
C6_Witness ==
    \E l \in LeadIds :
        /\ Exists(dbLeads, l)
        /\ dbLeads[l].status = "new"
        /\ dbLeads[l].age > 3
        /\ \A n \in Stages : ~Flag(l, n) /\ sentCount[l][n] = 0
        /\ run["run1"].pc = "loop"
        /\ run["run1"].stage = 1
        /\ l \in run["run1"].tried

\* C7: a captured lead whose message can be built (it has a prompt) eventually
\* has all three flags set and status 'closed', whatever other leads exist.
C7_EventualDelivery ==
    \A l \in LeadIds :
        (Exists(dbLeads, l) /\ dbLeads[l].prompt # Null)
            ~> (/\ Exists(dbLeads, l)
                /\ dbLeads[l].status = "closed"
                /\ \A n \in Stages : Flag(l, n))

\* C8: no lead is sent the email of one stage more than once.
C8_NoDoubleSend ==
    \A l \in LeadIds, n \in Stages : sentCount[l][n] <= 1

\* C9: in the step that delivers the stage-n email to a lead, the lead is at
\* least Threshold(n) days old and the flag of the stage before is set.
C9_NoEarlyStage ==
    [][\A l \in LeadIds, n \in Stages :
          sentCount'[l][n] > sentCount[l][n] =>
              /\ Exists(dbLeads, l)
              /\ dbLeads[l].age >= Threshold(n)
              /\ n > 1 => dbLeads[l].follow_up_sent[n - 1]]_vars

\* A lead that was sent the emails of all three stages.
C9_Witness ==
    \E l \in LeadIds : \A n \in Stages : sentCount[l][n] > 0

\* C10: when POST /api/lead has just answered success, the list endpoint of
\* the lead's company returns that lead with status 'new'.
C10_CaptureThenList ==
    (resp.op = "lead" /\ resp.code = 200) =>
        LET listed == ListLeads(leads, dbLeads[resp.leadId].company_id, Null)
        IN  \E i \in 1..Len(listed) :
                listed[i].id = resp.leadId /\ listed[i].status = "new"

\* C11: every persisted lead carries the reference code 'RV-' followed by the
\* first 8 characters of its id in upper case, in every state (so no update or
\* scheduler stage changes it), and a successful capture returns that code.
C11_ReferenceCodeStable ==
    LET Digits == {"0", "1", "2", "3", "4", "5", "6", "7", "8", "9"}
        Cased  == {<<"a", "A">>, <<"b", "B">>, <<"c", "C">>, <<"d", "D">>,
                   <<"e", "E">>, <<"f", "F">>} \cup {<<d, d>> : d \in Digits}
    IN  /\ \A l \in LeadIds : Exists(dbLeads, l) =>
              LET code == dbLeads[l].reference_code
              IN  /\ Len(code) = 11
                  /\ SubSeq(code, 1, 3) = <<"R", "V", "-">>
                  /\ \A i \in 1..8 : <<Uuid(l)[i], code[3 + i]>> \in Cased
        /\ (resp.op = "lead" /\ resp.code = 200) =>
              resp.referenceCode = dbLeads[resp.leadId].reference_code

\* A lead that went through all three scheduler stages and was closed still
\* carries the code it was captured with.
C11_Witness ==
    /\ Exists(dbLeads, "lead_a")
    /\ dbLeads["lead_a"].status = "closed"
    /\ \A n \in Stages : Flag("lead_a", n)
    /\ dbLeads["lead_a"].reference_code = <<"R", "V", "-", "3", "F", "A", "8", "5", "F", "6", "4">>

\* C12: in the step that persists a captured lead, the new row has status
\* 'new' and its three follow-up flags are false.
C12_CapturedNewUnflagged ==
    [][\A l \in LeadIds :
          (~Exists(dbLeads, l) /\ Exists(dbLeads', l))
              => /\ dbLeads'[l].status = "new"
                 /\ \A n \in Stages : ~dbLeads'[l].follow_up_sent[n]]_vars

\* A capture has just answered success and its row is in the store.
C12_Witness ==
    /\ resp.op = "lead"
    /\ resp.code = 200
    /\ Exists(dbLeads, resp.leadId)
    /\ dbLeads[resp.leadId].age = 0

\* C13: once a capture has answered success, the customer confirmation and the
\* company alert for the captured lead have been handed to the mail API.
C13_CaptureNotifies ==
    (resp.op = "lead" /\ resp.code = 200) =>
        SendCompanyNotification(SendCustomerEmail({}, resp.leadId), resp.leadId) \subseteq notified

\* C14: a capture request that lacks the company id, the customer name, the
\* email or the phone number answers 400, and that step persists no lead and
\* hands no email to the mail API.
C14_MissingFieldRejected ==
    [][\A c \in CompanyIdInputs, hn, he, hp \in BOOLEAN, p \in PromptInputs :
          (resp'.op = "lead" /\ (c = Null \/ ~hn \/ ~he \/ ~hp) /\ PostLead(c, hn, he, hp, p))
              => /\ resp'.code = 400
                 /\ dbLeads' = dbLeads
                 /\ dbCompanies' = dbCompanies
                 /\ notified' = notified
                 /\ sentCount' = sentCount]_vars

\* A capture without one of the required fields was answered while the
\* company exists and a lead of it is already stored.
C14_Witness ==
    /\ resp.op = "lead"
    /\ resp.code = 400
    /\ DemoCompanyId \in dbCompanies
    /\ \E l \in LeadIds : Exists(dbLeads, l)

\* C15: in a step that turns a stored lead's status into 'won', the lead's
\* won-date is set, to a time not earlier than its creation.
C15_WonDateStamped ==
    [][\A i \in 1..Len(leads) :
          (Len(leads') = Len(leads) /\ leads[i].status # "won" /\ leads'[i].status = "won")
              => /\ leads'[i].wonAge # NoValue
                 /\ leads'[i].wonAge <= leads'[i].createdAge]_vars

\* The stored leads of company c that are 'won', within the month scope m.
WonOf(c, m) ==
    {i \in 1..Len(leads) : /\ leads[i].companyId = c
                           /\ leads[i].status = "won"
                           /\ (m = Null \/ InMonth(leads[i], m))}

\* The project values of the stored leads at positions S, added up.
RECURSIVE ValueOf(_)
ValueOf(S) ==
    IF S = {} THEN 0
    ELSE LET i == CHOOSE j \in S : TRUE
             v == leads[i].projectValue
         IN  (IF v = NoValue THEN 0 ELSE v) + ValueOf(S \ {i})

\* C16: a stats response reports as wonLeads the number of the company's 'won'
\* leads and as totalRevenue the sum of the project values of exactly those
\* (no persisted lead is 'won', so the in-memory leads are all there are).
C16_StatsCountWon ==
    [][\A c \in CompanyIdInputs \ {Null}, m \in MonthInputs :
          (resp'.op = "stats" /\ GetStats(c, m))
              => /\ \A l \in LeadIds : Exists(dbLeads, l) => dbLeads[l].status # "won"
                 /\ resp'.stats.wonLeads = Cardinality(WonOf(c, m))
                 /\ resp'.stats.totalRevenue = ValueOf(WonOf(c, m))]_vars

\* demo_lead_5 was updated to 'won' with project value 15000 and the stats of
\* its company count it beside the two seeded wins (15000 and 20000).
C16_Witness ==
    /\ resp.op = "stats"
    /\ resp.leadId = DemoCompanyId
    /\ \E i \in 1..Len(leads) : /\ leads[i].id = "demo_lead_5"
                                /\ leads[i].status = "won"
                                /\ leads[i].projectValue = 15000
    /\ resp.stats.wonLeads = 3
    /\ resp.stats.totalRevenue = 50000

\* C20: a stats response has conversion rate 0 when the scope holds no lead
\* and average won-project value 0 when it holds no 'won' lead; otherwise the
\* rate is won / total as a percentage, between 0 and 100 (here in tenths,
\* rounded to the nearest tenth).
C20_StatsNoDivisionByZero ==
    [][\A c \in CompanyIdInputs \ {Null}, m \in MonthInputs :
          (resp'.op = "stats" /\ GetStats(c, m))
              => LET st == resp'.stats
                 IN  /\ st.totalLeads = 0 => st.conversionRate = 0
                     /\ st.wonLeads = 0 => st.averageProjectValue = 0
                     /\ st.totalLeads > 0 =>
                           /\ st.conversionRate >= 0
                           /\ st.conversionRate <= 1000
                           /\ 2 * st.conversionRate * st.totalLeads
                                 <= (2000 * st.wonLeads) + st.totalLeads
                           /\ 2 * st.conversionRate * st.totalLeads
                                 >= (2000 * st.wonLeads) - st.totalLeads]_vars

\* Stats were answered for a scope that holds leads none of which is 'won'.
C20_Witness ==
    /\ resp.op = "stats"
    /\ resp.stats.totalLeads > 0
    /\ resp.stats.wonLeads = 0
    /\ resp.stats.averageProjectValue = 0

\* The position of the stored lead with id `id`, 0 if there is none.
IndexOf(id) ==
    IF \E i \in 1..Len(leads) : leads[i].id = id
    THEN CHOOSE i \in 1..Len(leads) : leads[i].id = id
    ELSE 0

\* C17: an update that answers success writes every field the request
\* carries (a status; a project value, 0 included), keeps every field it does
\* not carry, and changes nothing else of that lead and no other lead.
C17_PartialUpdate ==
    [][\A id \in PutLeadIds, st \in StatusInputs, v \in ProjectValueInputs :
          (resp'.op = "update" /\ resp'.code = 200 /\ PutLead(id, st, v))
              => LET i == IndexOf(id)
                 IN  /\ Len(leads') = Len(leads)
                     /\ \A k \in 1..Len(leads) : k # i => leads'[k] = leads[k]
                     /\ leads'[i].id = leads[i].id
                     /\ leads'[i].companyId = leads[i].companyId
                     /\ leads'[i].createdAge = leads[i].createdAge
                     /\ leads'[i].status = IF st = Null THEN leads[i].status ELSE st
                     /\ leads'[i].projectValue
                           = IF v = NoValue THEN leads[i].projectValue ELSE v]_vars

\* C18: an update of an unknown lead id answers 404 and leaves both lead
\* stores as they were; a company lookup of an unknown company id answers 404.
C18_NotFound ==
    [][/\ \A id \in PutLeadIds \cup LeadIds, st \in StatusInputs, v \in ProjectValueInputs :
             (resp'.op = "update" /\ IndexOf(id) = 0 /\ PutLead(id, st, v))
                 => /\ resp'.code = 404
                    /\ leads' = leads
                    /\ dbLeads' = dbLeads
       /\ \A c \in CompanyIdInputs \ {Null} :
             (resp'.op = "company" /\ GetCompany(c) /\ \A x \in companies : x.id # c)
                 => resp'.code = 404]_vars

\* An update of an unknown id was answered 404 while leads are stored.
C18_Witness ==
    /\ resp.op = "update"
    /\ resp.code = 404
    /\ Len(leads) > 0

\* C19: a list response holds exactly the leads of the company, persisted or
\* in memory, that pass the status filter, each once, newest first, with total
\* the number returned; the step changes no store.
C19_ListExactlyOwned ==
    [][\A c \in CompanyIdInputs, s \in StatusFilters :
          (resp'.op = "list" /\ GetLeads(c, s))
              => LET got == resp'.leads
                 IN  /\ {got[i].id : i \in 1..Len(got)}
                           = {leads[i].id : i \in {k \in 1..Len(leads) :
                                   /\ leads[k].companyId = c
                                   /\ (s = Null \/ leads[k].status = s)}}
                             \cup {l \in LeadIds : /\ Exists(dbLeads, l)
                                                   /\ dbLeads[l].company_id = c
                                                   /\ (s = Null \/ dbLeads[l].status = s)}
                     /\ \A i, j \in 1..Len(got) : i < j =>
                           /\ got[i].id # got[j].id
                           /\ got[i].createdAge <= got[j].createdAge
                     /\ resp'.total = Len(got)
                     /\ leads' = leads
                     /\ dbLeads' = dbLeads]_vars

C22_EmailUnique ==
    \A c1, c2 \in companies :
        (c1.email # Null /\ c1.email = c2.email) => c1 = c2

\* C23: every stored lead references a stored company, and a capture whose
\* company id matches no stored company answers an error and stores no lead.
C23_NoOrphanLead ==
    [][/\ \A l \in LeadIds :
             Exists(dbLeads', l) => dbLeads'[l].company_id \in dbCompanies'
       /\ \A c \in CompanyIdInputs, hn, he, hp \in BOOLEAN, p \in PromptInputs :
             (resp'.op = "lead" /\ c \notin dbCompanies /\ PostLead(c, hn, he, hp, p))
                 => /\ resp'.code >= 400
                    /\ dbLeads' = dbLeads]_vars

\* A lead of the demo company is stored and a later capture for an unknown
\* company was answered 500 while the store never failed.
C23_Witness ==
    /\ \E l \in LeadIds : Exists(dbLeads, l)
    /\ resp.op = "lead"
    /\ resp.code = 500
    /\ dbFaults = 0

C26_DeliveredAtMostOnce ==
    [][\A l \in LeadIds, n \in Stages :
          sentCount'[l][n] > sentCount[l][n] => sentCount[l][n] = 0]_vars

\* C27: a run delivers an email to a lead only if it has delivered none to
\* that lead before (run[r].mailed: the leads this invocation has mailed).
C27_OneEmailPerRun ==
    [][\A r \in Runs, l \in LeadIds :
          (run[r].pc = "loop" /\ run'[r].pc = "update" /\ run'[r].cur = l)
              => l \notin run[r].mailed]_vars

\* C28: for every stored lead, flag2 implies flag1 and flag3 implies flag2,
\* and an email of a later stage was delivered only after one of the stage
\* before it.
C28_StageOrder ==
    \A l \in LeadIds :
        Exists(dbLeads, l) =>
            /\ Flag(l, 2) => Flag(l, 1)
            /\ Flag(l, 3) => Flag(l, 2)
            /\ sentCount[l][2] > 0 => sentCount[l][1] > 0
            /\ sentCount[l][3] > 0 => sentCount[l][2] > 0

\* Two leads side by side: one carried through all three stages, one that
\* has the first flag only although it is past the second threshold.
C28_Witness ==
    \E l1, l2 \in LeadIds :
        /\ Exists(dbLeads, l1) /\ Exists(dbLeads, l2)
        /\ \A n \in Stages : Flag(l1, n)
        /\ Flag(l2, 1) /\ ~Flag(l2, 2)
        /\ dbLeads[l2].age > SecondFollowUpDays

\* C29: once POST /api/auth/register has succeeded for an email and a
\* password, a login with that email that the store answers returns 200 and
\* the registered company id for that password, and 401 for another password.
C29_RegisterThenLogin ==
    [][\A e \in EmailInputs \ {Null}, p \in PasswordInputs \ {<<>>} :
          (resp'.op = "login" /\ dbFaults' = dbFaults /\ PostAuthLogin(e, p))
              => \A c \in companies :
                    (c.id \in RegisteredIds /\ c.email = e /\ c.password # <<>>)
                        => IF HashPassword(p) = c.password
                           THEN resp'.code = 200 /\ resp'.leadId = c.id
                           ELSE resp'.code = 401]_vars

\* C30: when several files were selected and every upload has answered
\* success, uploadedFilename is the name of the file selected last.
C30_LastSelectedWins ==
    (/\ widget.selected >= 2
     /\ \A k \in 1..widget.selected : widget.upload[k] = "ok")
        => widget.uploadedFilename = Filename(widget.selected)

====
